---- MODULE Spec2Model ----
(***************************************************************************)
(* A model of src/app.py: the Slack webhook bridge (signature verifier,    *)
(* two-stage modal flow, background completion and delivery).              *)
(*                                                                         *)
(* Text is modelled as Python models it: a str is a sequence of Unicode    *)
(* code points, a bytes value is a sequence of integers 0..255.  Python's  *)
(* None is a value different from every str.                               *)
(***************************************************************************)
EXTENDS Integers, Sequences, FiniteSets, TLC

VARIABLES
    vPc, vNow, vTimestamp, vSignature, vBody, vOutcome,
    cPc, cModel, cChannel, cEncoded, cDecoded,
    uPc, uChunks, uError, uPost,
    req,        \* the inbound request each handler invocation serves
    pc,         \* where each handler invocation stands
    response,   \* what each handler invocation answered the webhook with
    calls,      \* per request, the outbound API calls made on its behalf
    tasks,      \* the background units created by asyncio.create_task
    loop        \* the unit that occupies the event loop's thread, or 0

verifyVars == <<vPc, vNow, vTimestamp, vSignature, vBody, vOutcome>>
carrierVars == <<cPc, cModel, cChannel, cEncoded, cDecoded>>
unitVars == <<uPc, uChunks, uError, uPost>>
harnessVars == <<verifyVars, carrierVars, unitVars>>
sysVars == <<req, pc, response, calls, tasks, loop>>
vars == <<verifyVars, carrierVars, unitVars, sysVars>>

-----------------------------------------------------------------------------
(* Bounds of the model *)

\* Longest raw request body (in bytes) the verifier is exercised with.
MaxBodyLen == 2

\* Most chunks in a stream the completion step is exercised with.
MaxChunks == 3

\* The clock is read in ticks; this many ticks make one second, so that
\* time.time() can fall strictly between two whole seconds.
TicksPerSecond == 2

\* The whole second around which the clock readings are drawn.
BaseSecond == 1000

\* Longest model identifier and channel value the carrier is exercised with.
MaxStrLen == 2

\* Number of inbound webhook requests served in one run.
MaxRequests == 2

-----------------------------------------------------------------------------
(* Python values *)

\* Python's None: no code point is negative, so it differs from every str.
None == << -1 >>

\* `not x` for a header value that is None or a str (src/app.py:29).
Falsy(x) == x = None \/ x = << >>

Abs(x) == IF x < 0 THEN -x ELSE x

\* The literals of src/app.py, as code points.
StrV0Colon == <<118, 48, 58>>
StrColon == <<58>>
StrV0Eq == <<118, 48, 61>>

\* str.encode() / bytes.decode() of UTF-8, for code points below U+0800 and
\* for the bytes 0x00..0xDF and 0xF5..0xFF (the alphabets of the model hold
\* no three- or four-byte sequences).  An ASCII str encodes to itself.
RECURSIVE Utf8Encode(_)
Utf8Encode(s) ==
    IF \A i \in 1..Len(s) : s[i] < 128 THEN s
    ELSE LET c == Head(s) IN
         (IF c < 128 THEN <<c>>
          ELSE <<192 + (c \div 64), 128 + (c % 64)>>) \o Utf8Encode(Tail(s))

IsContinuation(b) == b >= 128 /\ b <= 191

\* TRUE iff bytes.decode() returns; FALSE iff it raises UnicodeDecodeError.
RECURSIVE Utf8Valid(_)
Utf8Valid(b) ==
    IF b = << >> THEN TRUE
    ELSE IF Head(b) < 128 THEN Utf8Valid(Tail(b))
    ELSE IF Head(b) >= 194 /\ Head(b) <= 223
         THEN Len(b) >= 2 /\ IsContinuation(b[2]) /\ Utf8Valid(Tail(Tail(b)))
    ELSE FALSE

RECURSIVE Utf8Decode(_)
Utf8Decode(b) ==
    IF b = << >> THEN << >>
    ELSE IF Head(b) < 128 THEN <<Head(b)>> \o Utf8Decode(Tail(b))
    ELSE <<(Head(b) - 192) * 64 + (b[2] - 128)>> \o Utf8Decode(Tail(Tail(b)))

\* The characters str.strip() drops (src/app.py:159).
IsSpace(c) ==
    c \in {9, 10, 11, 12, 13, 28, 29, 30, 31, 32, 133, 160, 5760, 8232, 8233, 8239,
           8287, 12288} \cup 8192..8202
IsDigit(c) == c >= 48 /\ c <= 57

RECURSIVE LStrip(_)
LStrip(s) == IF s # << >> /\ IsSpace(Head(s)) THEN LStrip(Tail(s)) ELSE s

RECURSIVE RStrip(_)
RStrip(s) ==
    IF s # << >> /\ IsSpace(s[Len(s)]) THEN RStrip(SubSeq(s, 1, Len(s) - 1)) ELSE s

Strip(s) == RStrip(LStrip(s))

\* int(str) of a header value (src/app.py:31).  A header value is a latin-1
\* str: its code points are below 256, where the decimal digits are "0".."9".
\* The whitespace int() drops around the literal: that of str.strip() without
\* U+001C..U+001F.
IsIntSpace(c) == IsSpace(c) /\ c \notin 28..31

RECURSIVE IntLStrip(_)
IntLStrip(s) == IF s # << >> /\ IsIntSpace(Head(s)) THEN IntLStrip(Tail(s)) ELSE s

RECURSIVE IntRStrip(_)
IntRStrip(s) ==
    IF s # << >> /\ IsIntSpace(s[Len(s)]) THEN IntRStrip(SubSeq(s, 1, Len(s) - 1)) ELSE s

\* The digits of an unsigned literal: decimal digits, with single underscores
\* allowed between two digits.
AllDigits(s) ==
    /\ s # << >>
    /\ \A i \in 1..Len(s) :
        \/ IsDigit(s[i])
        \/ /\ s[i] = 95
           /\ i > 1 /\ i < Len(s)
           /\ IsDigit(s[i - 1]) /\ IsDigit(s[i + 1])

\* sys.get_int_max_str_digits(): a literal of more digits is a ValueError.
IntMaxStrDigits == 4300

\* The digits of a literal from its first digit that is not "0".
Significant(d) ==
    IF \A i \in 1..Len(d) : d[i] = 48 THEN << >>
    ELSE SubSeq(d, CHOOSE i \in 1..Len(d) :
                        d[i] # 48 /\ \A k \in 1..(i - 1) : d[k] = 48, Len(d))

RECURSIVE DigitsValue(_)
DigitsValue(s) ==
    IF s = << >> THEN 0
    ELSE DigitsValue(SubSeq(s, 1, Len(s) - 1)) * 10 + (s[Len(s)] - 48)

\* The decimal digits of a natural number.
RECURSIVE ToDecimal(_)
ToDecimal(n) ==
    IF n < 10 THEN <<48 + n>> ELSE ToDecimal(n \div 10) \o <<48 + (n % 10)>>

\* The int a literal denotes: ok = FALSE is ValueError; negative is its sign
\* and digits its magnitude in decimal, without leading zeros (empty: 0).
IntOf(t, signed) ==
    IF AllDigits(IF signed THEN Tail(t) ELSE t)
       /\ Len(SelectSeq(t, IsDigit)) <= IntMaxStrDigits
    THEN [ok |-> TRUE,
          negative |-> signed /\ Head(t) = 45,
          digits |-> Significant(SelectSeq(t, IsDigit))]
    ELSE [ok |-> FALSE, negative |-> FALSE, digits |-> << >>]

ParseInt(s) ==
    IntOf(IntRStrip(IntLStrip(s)),
          IntRStrip(IntLStrip(s)) # << >> /\ Head(IntRStrip(IntLStrip(s))) \in {43, 45})

\* The value of an int of at most ten digits.
IntValue(n) == IF n.negative THEN -DigitsValue(n.digits) ELSE DigitsValue(n.digits)

\* 2^1024 - 2^970 in decimal: the least magnitude of an int that float()
\* does not take (OverflowError: int too large to convert to float).
FloatOverflowDigits ==
    <<49, 55, 57, 55, 54, 57, 51, 49, 51, 52, 56, 54, 50, 51, 49, 53,
      56, 48, 55, 57, 51, 55, 50, 56, 57, 55, 49, 52, 48, 53, 51, 48,
      51, 52, 49, 53, 48, 55, 57, 57, 51, 52, 49, 51, 50, 55, 49, 48,
      48, 51, 55, 56, 50, 54, 57, 51, 54, 49, 55, 51, 55, 55, 56, 57,
      56, 48, 52, 52, 52, 57, 54, 56, 50, 57, 50, 55, 54, 52, 55, 53,
      48, 57, 52, 54, 54, 52, 57, 48, 49, 55, 57, 55, 55, 53, 56, 55,
      50, 48, 55, 48, 57, 54, 51, 51, 48, 50, 56, 54, 52, 49, 54, 54,
      57, 50, 56, 56, 55, 57, 49, 48, 57, 52, 54, 53, 53, 53, 53, 52,
      55, 56, 53, 49, 57, 52, 48, 52, 48, 50, 54, 51, 48, 54, 53, 55,
      52, 56, 56, 54, 55, 49, 53, 48, 53, 56, 50, 48, 54, 56, 49, 57,
      48, 56, 57, 48, 50, 48, 48, 48, 55, 48, 56, 51, 56, 51, 54, 55,
      54, 50, 55, 51, 56, 53, 52, 56, 52, 53, 56, 49, 55, 55, 49, 49,
      53, 51, 49, 55, 54, 52, 52, 55, 53, 55, 51, 48, 50, 55, 48, 48,
      54, 57, 56, 53, 53, 53, 55, 49, 51, 54, 54, 57, 53, 57, 54, 50,
      50, 56, 52, 50, 57, 49, 52, 56, 49, 57, 56, 54, 48, 56, 51, 52,
      57, 51, 54, 52, 55, 53, 50, 57, 50, 55, 49, 57, 48, 55, 52, 49,
      54, 56, 52, 52, 52, 51, 54, 53, 53, 49, 48, 55, 48, 52, 51, 52,
      50, 55, 49, 49, 53, 53, 57, 54, 57, 57, 53, 48, 56, 48, 57, 51,
      48, 52, 50, 56, 56, 48, 49, 55, 55, 57, 48, 52, 49, 55, 52, 52,
      57, 55, 55, 57, 50>>

\* The magnitude a is at least the magnitude b (decimal, no leading zeros).
AtLeast(a, b) ==
    \/ Len(a) > Len(b)
    \/ /\ Len(a) = Len(b)
       /\ \A i \in 1..Len(a) :
            (\A k \in 1..(i - 1) : a[k] = b[k]) => a[i] >= b[i]

\* time.time() - int(timestamp) converts the int to a float first.
IntOverflowsFloat(n) == AtLeast(n.digits, FloatOverflowDigits)

-----------------------------------------------------------------------------
(* Signature verification: src/app.py:26-38 *)

\* 60 * 5 seconds
MaxSkewSeconds == 300

\* SLACK_SIGNING_SECRET: a non-empty str (the process refuses to start
\* without it, src/app.py:19); here the str "sec".
SLACK_SIGNING_SECRET == <<115, 101, 99>>

\* hmac.new(key, msg, sha256).hexdigest() as an injective function of the key
\* and message bytes: a str over symbols that occur in no other text (key
\* bytes in 1000..1255 followed by message bytes in 2000..2255).
HmacSha256Hex(key, msg) ==
    [i \in 1..Len(key) |-> 1000 + key[i]] \o [i \in 1..Len(msg) |-> 2000 + msg[i]]

\* The outcomes of the verifier: it returns, or it raises.
Accepted == [kind |-> "return", status |-> 200, detail |-> ""]
HTTPException(status, detail) ==
    [kind |-> "HTTPException", status |-> status, detail |-> detail]
Raised(exc) == [kind |-> exc, status |-> 500, detail |-> ""]

MissingHeaders == HTTPException(400, "Missing Slack headers.")
StaleRequest == HTTPException(400, "Request too old.")
InvalidSignature == HTTPException(403, "Invalid Slack signature.")

\* abs(time.time() - int(timestamp)) > 60 * 5, the clock being in ticks, for
\* an int that float() takes.  An int of four digits more than the clock
\* reading is over 300 seconds from it; a shorter one is subtracted.
TooOld(now, seconds) ==
    IF Len(seconds.digits) > Len(ToDecimal(now)) + 3 THEN TRUE
    ELSE Abs(now - IntValue(seconds) * TicksPerSecond) > MaxSkewSeconds * TicksPerSecond

ComputedSignature(timestamp, body) ==
    StrV0Eq \o HmacSha256Hex(Utf8Encode(SLACK_SIGNING_SECRET),
                Utf8Encode(StrV0Colon \o timestamp \o StrColon \o Utf8Decode(body)))

\* hmac.compare_digest takes two str only if both are ASCII (TypeError).  A
\* header value is a latin-1 str; the symbols of a hexdigest (1000 and above)
\* stand for hex digits.
IsAscii(s) == \A i \in 1..Len(s) : s[i] < 128 \/ s[i] >= 1000

verify_slack_signature(timestamp, slack_signature, body, now) ==
    IF Falsy(timestamp) \/ Falsy(slack_signature) THEN MissingHeaders
    ELSE IF ~ParseInt(timestamp).ok THEN Raised("ValueError")
    ELSE IF IntOverflowsFloat(ParseInt(timestamp)) THEN Raised("OverflowError")
    ELSE IF TooOld(now, ParseInt(timestamp)) THEN StaleRequest
    ELSE IF ~Utf8Valid(body) THEN Raised("UnicodeDecodeError")
    ELSE IF ~IsAscii(slack_signature) THEN Raised("TypeError")
    ELSE IF ComputedSignature(timestamp, body) # slack_signature THEN InvalidSignature
    ELSE Accepted

-----------------------------------------------------------------------------
(* The verifier on its own: one call on drawn inputs *)

\* Sequences over S of length at most n.
SeqsUpTo(S, n) == UNION {[1..k -> S] : k \in 0..n}

\* "A", the two bytes of U+00E9, and a byte no UTF-8 text contains.
ByteAlphabet == {65, 195, 169, 255}
Bodies == SeqsUpTo(ByteAlphabet, MaxBodyLen)

\* BaseSecond with an underscore after its first digit.
Underscored == <<Head(ToDecimal(BaseSecond)), 95>> \o Tail(ToDecimal(BaseSecond))

\* The X-Slack-Request-Timestamp values: absent, empty, "abc", a number
\* padded with a space, one behind U+001C, one with an underscore, the least
\* int float() refuses and the int before it, and the seconds at and around
\* both edges of the window.
TimestampHeaders ==
    {None, << >>, <<97, 98, 99>>, <<32>> \o ToDecimal(BaseSecond),
     <<28>> \o ToDecimal(BaseSecond), Underscored, FloatOverflowDigits,
     [FloatOverflowDigits EXCEPT ![Len(FloatOverflowDigits)] = @ - 1]}
    \cup {ToDecimal(BaseSecond + d) :
            d \in {-(MaxSkewSeconds + 1), -MaxSkewSeconds, 0,
                   MaxSkewSeconds, MaxSkewSeconds + 1}}

\* time.time() readings within the second BaseSecond.
ClockReadings == {BaseSecond * TicksPerSecond + f : f \in 0..(TicksPerSecond - 1)}

\* What the platform sends as X-Slack-Signature for a request: the prefix and
\* the digest of the raw bytes "v0:" timestamp ":" body under its key.
SlackSignature(prefix, key, timestamp, body) ==
    prefix \o HmacSha256Hex(Utf8Encode(key),
                  Utf8Encode(StrV0Colon \o timestamp \o StrColon) \o body)

\* The bodies that differ from body in exactly one byte.
OneByteChanges(body) ==
    {[body EXCEPT ![i] = c] : i \in 1..Len(body), c \in ByteAlphabet} \ {body}

\* The X-Slack-Signature values tried against a timestamp header and a body.
SignatureHeaders(timestamp, body) ==
    LET ts == IF timestamp = None THEN << >> ELSE timestamp IN
    {None, << >>, StrV0Eq \o <<233>>}
    \cup {SlackSignature(prefix, key, ts, b) :
            prefix \in {StrV0Eq, <<118, 49, 61>>},
            key \in {SLACK_SIGNING_SECRET, <<120>>},
            b \in {body} \cup OneByteChanges(body)}

Pending == [kind |-> "pending", status |-> 0, detail |-> ""]

VerifyIdle ==
    /\ vPc = "idle"
    /\ vNow = 0
    /\ vTimestamp = None
    /\ vSignature = None
    /\ vBody = << >>
    /\ vOutcome = Pending

VerifyInit ==
    /\ vPc = "input"
    /\ vNow \in ClockReadings
    /\ vTimestamp \in TimestampHeaders
    /\ vBody \in Bodies
    /\ vSignature \in SignatureHeaders(vTimestamp, vBody)
    /\ vOutcome = Pending

VerifyCall ==
    /\ vPc = "input"
    /\ vPc' = "done"
    /\ vOutcome' = verify_slack_signature(vTimestamp, vSignature, vBody, vNow)
    /\ UNCHANGED <<vNow, vTimestamp, vSignature, vBody>>
    /\ UNCHANGED <<carrierVars, unitVars, sysVars>>


-----------------------------------------------------------------------------
(* Claims about the verifier *)

\* The request's timestamp header is a decimal integer within 300 seconds of
\* the clock reading (both written out, not taken from the verifier).
HasIntegerTimestamp == vTimestamp # None /\ ParseInt(vTimestamp).ok
\* The int n is more than 300 seconds from the clock reading now (in ticks).
\* The digits decide it when n is a thousand times the reading or more.
SecondsApart(n, now) ==
    \/ Len(n.digits) > Len(ToDecimal(now)) + 3
    \/ now - IntValue(n) * TicksPerSecond > 300 * TicksPerSecond
    \/ IntValue(n) * TicksPerSecond - now > 300 * TicksPerSecond
WithinWindow == HasIntegerTimestamp /\ ~SecondsApart(ParseInt(vTimestamp), vNow)
OutsideWindow == HasIntegerTimestamp /\ SecondsApart(ParseInt(vTimestamp), vNow)
CorrectlySigned ==
    /\ vTimestamp # None
    /\ vSignature = SlackSignature(StrV0Eq, SLACK_SIGNING_SECRET, vTimestamp, vBody)

\* C1: the verifier accepts a request if and only if both headers are
\* present, the timestamp is within 300 seconds of the current time, and the
\* signature is "v0=" followed by the HMAC-SHA256 of "v0:{timestamp}:{rawBody}"
\* under the signing secret.
C1_AcceptsIffFreshAndSigned ==
    vPc = "done" =>
        (vOutcome = Accepted <=>
            (vTimestamp # None /\ vSignature # None /\ WithinWindow /\ CorrectlySigned))

\* C3, for a request that carries a signature header: every request whose
\* timestamp is more than 300 seconds away from the current time is rejected
\* as StaleRequest, whether or not its signature is the correct one.
C3_StaleWhateverTheSignature ==
    (vPc = "done" /\ OutsideWindow /\ vSignature # None /\ vSignature # << >>)
        => vOutcome = StaleRequest

\* C4: verification ends in exactly one of four outcomes: accept,
\* MissingHeaders, StaleRequest or InvalidSignature.
C4_FourOutcomes ==
    vPc = "done" =>
        vOutcome \in {Accepted, MissingHeaders, StaleRequest, InvalidSignature}

-----------------------------------------------------------------------------
(* The carried state: json.dumps at src/app.py:106, json.loads at 130-132 *)

HexDigit(d) == IF d < 10 THEN 48 + d ELSE 87 + d

\* \uXXXX
Hex4Escape(c) ==
    <<92, 117, HexDigit(c \div 4096), HexDigit((c \div 256) % 16),
      HexDigit((c \div 16) % 16), HexDigit(c % 16)>>

\* The escape of a code point: \uXXXX below 0x10000, a surrogate pair above.
UnicodeEscape(c) ==
    IF c < 65536 THEN Hex4Escape(c)
    ELSE Hex4Escape(55296 + ((c - 65536) \div 1024))
         \o Hex4Escape(56320 + ((c - 65536) % 1024))

\* A string that leaves a backslash as it is.
JsonEscapeCharNoBackslash(c) ==
    IF c = 34 THEN <<92, 34>>
    ELSE IF c = 10 THEN <<92, 110>>
    ELSE IF c < 32 \/ c > 126 THEN UnicodeEscape(c)
    ELSE <<c>>

\* json.dumps of one character of a str (ensure_ascii is on by default).
JsonEscapeChar(c) ==
    IF c = 34 THEN <<92, 34>>
    ELSE IF c = 92 THEN <<92, 92>>
    ELSE IF c = 10 THEN <<92, 110>>
    ELSE IF c = 13 THEN <<92, 114>>
    ELSE IF c = 9 THEN <<92, 116>>
    ELSE IF c = 8 THEN <<92, 98>>
    ELSE IF c = 12 THEN <<92, 102>>
    ELSE IF c < 32 \/ c > 126 THEN UnicodeEscape(c)
    ELSE <<c>>

RECURSIVE JsonEscape(_)
JsonEscape(s) ==
    IF s = << >> THEN << >> ELSE JsonEscapeChar(Head(s)) \o JsonEscape(Tail(s))

StrNull == <<110, 117, 108, 108>>
StrModel == <<109, 111, 100, 101, 108>>
StrChannelId == <<99, 104, 97, 110, 110, 101, 108, 95, 105, 100>>

\* json.dumps of a value that is a str or None.
JsonDumpsValue(v) == IF v = None THEN StrNull ELSE <<34>> \o JsonEscape(v) \o <<34>>

\* json.dumps({"model": selected_model, "channel_id": channel_id})
EncodeCarrier(selected_model, channel_id) ==
    <<123>> \o JsonDumpsValue(StrModel) \o <<58, 32>> \o JsonDumpsValue(selected_model)
            \o <<44, 32>>
            \o JsonDumpsValue(StrChannelId) \o <<58, 32>> \o JsonDumpsValue(channel_id)
            \o <<125>>

\* json.loads, for documents whose values are strings, null, or objects of
\* these.  A parse step gives ok (FALSE: JSONDecodeError), the value and the
\* index after it.
ParseFail == [ok |-> FALSE, val |-> << >>, next |-> 0]

IsJsonSpace(c) == c \in {32, 9, 10, 13}

RECURSIVE SkipWs(_, _)
SkipWs(s, i) == IF i <= Len(s) /\ IsJsonSpace(s[i]) THEN SkipWs(s, i + 1) ELSE i

IsHex(c) == IsDigit(c) \/ (c >= 97 /\ c <= 102) \/ (c >= 65 /\ c <= 70)
HexValue(c) == IF IsDigit(c) THEN c - 48 ELSE IF c >= 97 THEN c - 87 ELSE c - 55

SimpleEscape(c) ==
    CASE c = 34 -> 34 [] c = 92 -> 92 [] c = 47 -> 47 [] c = 98 -> 8
      [] c = 102 -> 12 [] c = 110 -> 10 [] c = 114 -> 13 [] c = 116 -> 9

\* A \uXXXX escape stands at index i; its value.
IsHex4Escape(s, i) ==
    /\ i + 5 <= Len(s)
    /\ s[i] = 92 /\ s[i + 1] = 117
    /\ \A k \in (i + 2)..(i + 5) : IsHex(s[k])
Hex4Value(s, i) ==
    HexValue(s[i + 2]) * 4096 + HexValue(s[i + 3]) * 256
    + HexValue(s[i + 4]) * 16 + HexValue(s[i + 5])

\* A high surrogate escape at index i is followed by a low surrogate escape:
\* the two are one code point.
IsSurrogatePair(s, i) ==
    /\ IsHex4Escape(s, i) /\ Hex4Value(s, i) \in 55296..56319
    /\ IsHex4Escape(s, i + 6) /\ Hex4Value(s, i + 6) \in 56320..57343
PairValue(s, i) ==
    65536 + (Hex4Value(s, i) - 55296) * 1024 + (Hex4Value(s, i + 6) - 56320)

\* The characters of a JSON string from index i (after the opening quote).
RECURSIVE ParseStringBody(_, _, _)
ParseStringBody(s, i, acc) ==
    IF i > Len(s) THEN ParseFail
    ELSE IF s[i] = 34 THEN [ok |-> TRUE, val |-> acc, next |-> i + 1]
    ELSE IF s[i] = 92 THEN
        IF i + 1 > Len(s) THEN ParseFail
        ELSE IF s[i + 1] \in {34, 92, 47, 98, 102, 110, 114, 116}
             THEN ParseStringBody(s, i + 2, Append(acc, SimpleEscape(s[i + 1])))
        ELSE IF IsSurrogatePair(s, i)
             THEN ParseStringBody(s, i + 12, Append(acc, PairValue(s, i)))
        ELSE IF IsHex4Escape(s, i)
             THEN ParseStringBody(s, i + 6, Append(acc, Hex4Value(s, i)))
        ELSE ParseFail
    ELSE IF s[i] < 32 THEN ParseFail
    ELSE ParseStringBody(s, i + 1, Append(acc, s[i]))

\* A string or null at index i.
ParseScalar(s, i) ==
    IF i <= Len(s) /\ s[i] = 34 THEN ParseStringBody(s, i + 1, << >>)
    ELSE IF i + 3 <= Len(s) /\ SubSeq(s, i, i + 3) = StrNull
         THEN [ok |-> TRUE, val |-> None, next |-> i + 4]
    ELSE ParseFail

\* The members of an object from index i (at a key); acc holds the pairs
\* <<key, value>> read so far.  One operator for each position in a member.
RECURSIVE ParseMembers(_, _, _)
RECURSIVE MemberAfterKey(_, _, _)
RECURSIVE MemberAfterColon(_, _, _, _)
RECURSIVE MemberAfterValue(_, _, _, _)
RECURSIVE MemberEnd(_, _, _)

ParseMembers(s, i, acc) ==
    IF i <= Len(s) /\ s[i] = 34
    THEN MemberAfterKey(s, ParseStringBody(s, i + 1, << >>), acc)
    ELSE ParseFail

MemberAfterKey(s, key, acc) ==
    IF key.ok THEN MemberAfterColon(s, key.val, SkipWs(s, key.next), acc) ELSE ParseFail

MemberAfterColon(s, key, colon, acc) ==
    IF colon <= Len(s) /\ s[colon] = 58
    THEN MemberAfterValue(s, key, ParseScalar(s, SkipWs(s, colon + 1)), acc)
    ELSE ParseFail

MemberAfterValue(s, key, value, acc) ==
    IF value.ok THEN MemberEnd(s, SkipWs(s, value.next), Append(acc, <<key, value.val>>))
    ELSE ParseFail

MemberEnd(s, after, acc) ==
    IF after > Len(s) THEN ParseFail
    ELSE IF s[after] = 125 THEN [ok |-> TRUE, val |-> acc, next |-> after + 1]
    ELSE IF s[after] = 44 THEN ParseMembers(s, SkipWs(s, after + 1), acc)
    ELSE ParseFail

\* An object from the index after its opening brace.
ParseObject(s, first) ==
    IF first <= Len(s) /\ s[first] = 125
    THEN [ok |-> TRUE, val |-> << >>, next |-> first + 1]
    ELSE ParseMembers(s, first, << >>)

\* The document is the parsed value if only whitespace follows it.
Document(s, isDict, parsed) ==
    [ok |-> parsed.ok /\ SkipWs(s, parsed.next) = Len(s) + 1,
     isDict |-> isDict,
     pairs |-> IF isDict THEN parsed.val ELSE << >>,
     scalar |-> IF isDict THEN None ELSE parsed.val]

JsonValueAt(s, start) ==
    IF start <= Len(s) /\ s[start] = 123
    THEN Document(s, TRUE, ParseObject(s, SkipWs(s, start + 1)))
    ELSE Document(s, FALSE, ParseScalar(s, start))

\* json.loads(s): ok = FALSE is JSONDecodeError; a dict is given by its pairs
\* in document order; any other document by its scalar value.
JsonLoads(s) == JsonValueAt(s, SkipWs(s, 1))

HasKey(pairs, key) == \E i \in 1..Len(pairs) : pairs[i][1] = key

\* dict[key]: the value of the last member with that key.
DictGet(pairs, key) ==
    pairs[CHOOSE i \in 1..Len(pairs) :
            /\ pairs[i][1] = key
            /\ \A j \in (i + 1)..Len(pairs) : pairs[j][1] # key][2]

CarrierError(e) == [error |-> e, model |-> None, channel_id |-> None]

\* meta["model"] and meta["channel_id"] (src/app.py:131-132)
MetaFields(meta) ==
    IF ~meta.ok THEN CarrierError("JSONDecodeError")
    ELSE IF ~meta.isDict THEN CarrierError("TypeError")
    ELSE IF ~HasKey(meta.pairs, StrModel) THEN CarrierError("KeyError")
    ELSE IF ~HasKey(meta.pairs, StrChannelId) THEN CarrierError("KeyError")
    ELSE [error |-> "", model |-> DictGet(meta.pairs, StrModel),
          channel_id |-> DictGet(meta.pairs, StrChannelId)]

\* meta = json.loads(private_metadata); meta["model"]; meta["channel_id"]
\* (src/app.py:130-132).  error is "" when all three succeed.
DecodeCarrier(private_metadata) ==
    IF private_metadata = None THEN CarrierError("TypeError")
    ELSE MetaFields(JsonLoads(private_metadata))

-----------------------------------------------------------------------------
(* The carrier on its own: encode a drawn pair, then decode it *)

\* A quote, a backslash, "n", a line feed, U+00E9 and U+1F600.
CarrierAlphabet == {34, 92, 110, 10, 233, 128512}
CarrierStrings == SeqsUpTo(CarrierAlphabet, MaxStrLen)

CarrierIdle ==
    /\ cPc = "idle"
    /\ cModel = None
    /\ cChannel = None
    /\ cEncoded = None
    /\ cDecoded = [error |-> "", model |-> None, channel_id |-> None]

CarrierInit ==
    /\ cPc = "input"
    /\ cModel \in CarrierStrings
    /\ cChannel \in CarrierStrings \cup {None}
    /\ cEncoded = None
    /\ cDecoded = [error |-> "", model |-> None, channel_id |-> None]

CarrierEncode ==
    /\ cPc = "input"
    /\ cPc' = "encoded"
    /\ cEncoded' = EncodeCarrier(cModel, cChannel)
    /\ UNCHANGED <<cModel, cChannel, cDecoded>>
    /\ UNCHANGED <<verifyVars, unitVars, sysVars>>

CarrierDecode ==
    /\ cPc = "encoded"
    /\ cPc' = "decoded"
    /\ cDecoded' = DecodeCarrier(cEncoded)
    /\ UNCHANGED <<cModel, cChannel, cEncoded>>
    /\ UNCHANGED <<verifyVars, unitVars, sysVars>>

\* C5: decoding the private_metadata that the stage-1 handler encodes gives
\* back exactly the (model, channel) pair that was encoded, an absent
\* channel included.
C5_CarrierRoundTrip ==
    cPc = "decoded" =>
        /\ cDecoded.error = ""
        /\ cDecoded.model = cModel
        /\ cDecoded.channel_id = cChannel

\* A pair whose model holds a backslash followed by "n" and whose channel is
\* absent has made the round trip.
C5_Witness ==
    /\ cPc = "decoded"
    /\ cModel = <<92, 110>>
    /\ cChannel = None
    /\ cDecoded.model = <<92, 110>>
    /\ cDecoded.channel_id = None

-----------------------------------------------------------------------------
(* The service: request handlers, background units, the event loop *)

Reqs == 1..MaxRequests

\* The option values of the stage-1 modal (src/app.py:66, 70), each cut down
\* to the part that tells it from the other: "l4" and "l3".
LLAMA_4_SCOUT == <<108, 52>>
LLAMA_3_70B == <<108, 51>>

\* A modal view, by the fields the flow depends on.
View(callback_id, private_metadata, block_id, options) ==
    [callback_id |-> callback_id, private_metadata |-> private_metadata,
     block_id |-> block_id, options |-> options]
NoView == View("", None, "", << >>)

\* A stage-1 modal that does not carry the channel.
ModalViewWithoutChannel(channel_id) ==
    View("select_model", None, "model_block", <<LLAMA_4_SCOUT, LLAMA_3_70B>>)

\* modal_view (src/app.py:49-77)
ModalView(channel_id) ==
    View("select_model", channel_id, "model_block", <<LLAMA_4_SCOUT, LLAMA_3_70B>>)

\* A stage-2 modal that carries the model and drops the channel.
QuestionModalWithoutChannel(selected_model, channel_id) ==
    View("submit_question", EncodeCarrier(selected_model, None), "question_block", << >>)

\* question_modal (src/app.py:103-121)
QuestionModal(selected_model, channel_id) ==
    View("submit_question", EncodeCarrier(selected_model, channel_id),
         "question_block", << >>)

\* What a handler answers the webhook with.  raised names the exception that
\* ended the handler, if one did; an exception that is no HTTPException
\* makes the framework answer 500.
Response(status, response_action, view, detail, raised) ==
    [status |-> status, response_action |-> response_action, view |-> view,
     detail |-> detail, raised |-> raised]
NoResponse == Response(0, "", NoView, "", "")
PlainTextResponse == Response(200, "", NoView, "", "")
PushResponse(view) == Response(200, "push", view, "", "")
ClearResponse == Response(200, "clear", NoView, "", "")
ErrorResponse(outcome) == Response(outcome.status, "", NoView, outcome.detail, outcome.kind)

\* The outbound calls.  unit is 0 for the request's handler and the index of
\* the background unit otherwise; result is pending, returned or raised.
ViewsOpenCall(trigger_id, view) ==
    [api |-> "views.open", unit |-> 0, trigger_id |-> trigger_id, view |-> view,
     result |-> "pending"]
CompletionCall(unit, model, question) ==
    [api |-> "chat.completions.create", unit |-> unit, model |-> model,
     question |-> question, result |-> "pending"]
PostMessageCall(unit, channel, text) ==
    [api |-> "chat.postMessage", unit |-> unit, channel |-> channel, text |-> text,
     result |-> "pending"]

\* The call a unit is waiting on has returned or raised.
SetResult(cs, unit, result) ==
    [i \in 1..Len(cs) |->
        IF cs[i].unit = unit /\ cs[i].result = "pending"
        THEN [cs[i] EXCEPT !.result = result] ELSE cs[i]]

\* The result of the last call made on behalf of unit (0: the handler).
LastResult(cs, unit) ==
    cs[CHOOSE i \in 1..Len(cs) :
            cs[i].unit = unit /\ \A k \in (i + 1)..Len(cs) : cs[k].unit # unit].result

\* f"<@{user_id}> asked:\n>{question}\n\n*Answer:*\n{response_text}"
AnswerText(user_id, question, response_text) ==
    <<60, 64>> \o user_id \o <<62, 32, 97, 115, 107, 101, 100, 58, 10, 62>> \o question
        \o <<10, 10, 42, 65, 110, 115, 119, 101, 114, 58, 42, 10>> \o response_text

\* f"Error for <@{user_id}>: {str(e)}"
ErrorText(user_id, message) ==
    <<69, 114, 114, 111, 114, 32, 102, 111, 114, 32, 60, 64>> \o user_id
        \o <<62, 58, 32>> \o message

\* response_text += chunk.choices[0].delta.content or ""
RECURSIVE Accumulate(_)
Accumulate(chunks) ==
    IF chunks = << >> THEN << >>
    ELSE (IF Head(chunks) = None THEN << >> ELSE Head(chunks)) \o Accumulate(Tail(chunks))

(* Inputs *)

Channels == {<<67, 49>>, <<67, 50>>}
TriggerId == <<84, 49>>
Question == <<113, 63>>
Question2 == <<113, 33>>

\* The interaction payload after json.loads, by its shape ("view": it holds
\* a view with a callback_id and the submitted state; "no_callback_id": a
\* view without callback_id; "no_view": no view; "absent": the form has no
\* payload field) and the fields the handler reads.
Payload(shape, callback_id, private_metadata, selected_model, question, user_id) ==
    [shape |-> shape, callback_id |-> callback_id,
     private_metadata |-> private_metadata, selected_model |-> selected_model,
     question |-> question, user_id |-> user_id]
NoPayload == Payload("absent", "", None, None, None, None)

\* The parsed form of a request.
Form(trigger_id, channel_id, payload) ==
    [trigger_id |-> trigger_id, channel_id |-> channel_id, payload |-> payload]

CommandForms == {Form(TriggerId, c, NoPayload) : c \in Channels \cup {None}}

\* Metadata that is no well-formed carried state: empty, the JSON null, an
\* object without channel_id.
CorruptStates ==
    {<< >>, StrNull,
     <<123>> \o JsonDumpsValue(StrModel) \o <<58, 32>> \o JsonDumpsValue(LLAMA_3_70B)
        \o <<125>>}

\* The flows that are run: the model, the channel, the user, the question.
Flows ==
    {<<LLAMA_4_SCOUT, <<67, 49>>, <<85, 49>>, Question>>,
     <<LLAMA_3_70B, <<67, 50>>, <<85, 50>>, Question2>>}

\* A flow whose command came without channel_id, up to its stage-1 submission.
ChannelLessFlow == <<LLAMA_4_SCOUT, None, <<85, 50>>, Question>>

Stage1Payloads ==
    {Payload("view", "select_model", f[2], f[1], None, f[3]) :
        f \in Flows \cup {ChannelLessFlow}}
Stage2Payloads ==
    {Payload("view", "submit_question", EncodeCarrier(f[1], f[2]), None, f[4], f[3]) :
        f \in Flows}
    \cup {Payload("view", "submit_question", md, None, Question, <<85, 49>>) :
            md \in CorruptStates}
OtherPayloads ==
    {Payload("view", "other", None, None, None, <<85, 49>>),
     Payload("no_callback_id", "", None, None, None, <<85, 49>>),
     Payload("no_view", "", None, None, None, <<85, 49>>),
     NoPayload}
InteractionForms ==
    {Form(None, None, p) : p \in Stage1Payloads \cup Stage2Payloads \cup OtherPayloads}

\* The forms of the requests the verifier turns away: a command and a
\* stage-2 submission.
SampleCommandForm == Form(TriggerId, <<67, 49>>, NoPayload)
SampleInteractionForm ==
    Form(None, None, Payload("view", "submit_question",
                             EncodeCarrier(LLAMA_4_SCOUT, <<67, 49>>), None, Question,
                             <<85, 49>>))

\* The headers and raw body of the requests: one the verifier accepts, and
\* one for each way a request fails.
FreshTimestamp == ToDecimal(BaseSecond)
StaleTimestamp == ToDecimal(BaseSecond - (MaxSkewSeconds + 1))
Wire(timestamp, signature, body) ==
    [timestamp |-> timestamp, signature |-> signature, body |-> body]
Signed(timestamp, body) ==
    Wire(timestamp, SlackSignature(StrV0Eq, SLACK_SIGNING_SECRET, timestamp, body), body)
GoodWire == Signed(FreshTimestamp, <<65>>)
BadWires ==
    {Signed(FreshTimestamp, <<255>>),
     Signed(StaleTimestamp, <<65>>),
     Signed(<<97, 98, 99>>, <<65>>),
     Wire(None, Signed(FreshTimestamp, <<65>>).signature, <<65>>),
     Wire(FreshTimestamp, None, <<65>>),
     Wire(FreshTimestamp, SlackSignature(StrV0Eq, <<120>>, FreshTimestamp, <<65>>), <<65>>)}

Request(endpoint, wire, form) ==
    [endpoint |-> endpoint, timestamp |-> wire.timestamp,
     signature |-> wire.signature, body |-> wire.body, form |-> form]
NoRequest == Request("", Wire(None, None, << >>), Form(None, None, NoPayload))

\* The requests that arrive: every form under headers the verifier accepts,
\* and a command and a stage-2 submission under each of the failing headers.
Requests ==
    {Request("/slack-llama", GoodWire, f) : f \in CommandForms}
    \cup {Request("/slack-interact", GoodWire, f) : f \in InteractionForms}
    \cup {Request("/slack-llama", w, SampleCommandForm) : w \in BadWires}
    \cup {Request("/slack-interact", w, SampleInteractionForm) : w \in BadWires}

\* What the completion API does with a call: the chunks' delta.content it
\* streams, and the message of the exception it raises (None: it raises none).
Stream(chunks, error) == [chunks |-> chunks, error |-> error]
StreamOutcomes ==
    {Stream(<<<<72, 105>>, None, <<32>>>>, None),
     Stream(<<None, <<32>>>>, None),
     Stream(<< >>, None),
     Stream(<< >>, <<98, 111, 111, 109>>)}

\* The message of the exception a failed message post raises.
PostError == <<100, 111, 119, 110>>

(* State *)

SysInit ==
    /\ req = [r \in Reqs |-> NoRequest]
    /\ pc = [r \in Reqs |-> "idle"]
    /\ response = [r \in Reqs |-> NoResponse]
    /\ calls = [r \in Reqs |-> << >>]
    /\ tasks = << >>
    /\ loop = 0

\* A handler that goes on whatever the verifier did.
VerifyWithoutRejecting(r) ==
    /\ loop = 0
    /\ pc[r] = "idle"
    /\ IF r = 1 THEN TRUE ELSE pc[r - 1] # "idle"
    /\ \E q \in Requests : req' = [req EXCEPT ![r] = q]
    /\ pc' = [pc EXCEPT ![r] = "form"]
    /\ UNCHANGED <<response, calls, tasks, loop, harnessVars>>

\* The server hands a request to its handler, which reads the raw body and
\* calls verify_slack_signature(request, body) at some reading of the clock;
\* an exception ends the handler, else it awaits the form
\* (src/app.py:41-45, 90-95).
Verify(r) ==
    /\ loop = 0
    /\ pc[r] = "idle"
    /\ IF r = 1 THEN TRUE ELSE pc[r - 1] # "idle"
    /\ \E q \in Requests, now \in ClockReadings :
        /\ req' = [req EXCEPT ![r] = q]
        /\ IF verify_slack_signature(q.timestamp, q.signature, q.body, now) = Accepted
           THEN /\ pc' = [pc EXCEPT ![r] = "form"]
                /\ UNCHANGED response
           ELSE /\ pc' = [pc EXCEPT ![r] = "done"]
                /\ response' = [response EXCEPT ![r] = ErrorResponse(
                        verify_slack_signature(q.timestamp, q.signature, q.body, now))]
    /\ UNCHANGED <<calls, tasks, loop, harnessVars>>

\* handle_command up to the awaited views.open post (src/app.py:45-85).
handle_command(r) ==
    /\ loop = 0
    /\ pc[r] = "form"
    /\ req[r].endpoint = "/slack-llama"
    /\ calls' = [calls EXCEPT ![r] =
                    Append(@, ViewsOpenCall(req[r].form.trigger_id,
                                            ModalView(req[r].form.channel_id)))]
    /\ pc' = [pc EXCEPT ![r] = "views_open"]
    /\ UNCHANGED <<req, response, tasks, loop, harnessVars>>

\* The views.open post returns, whatever the platform answered, or raises
\* (src/app.py:81-85); the handler is then leaving `async with`, where the
\* client is closed.
views_open_returns(r) ==
    /\ loop = 0
    /\ pc[r] = "views_open"
    /\ \E result \in {"returned", "raised"} :
        calls' = [calls EXCEPT ![r] = SetResult(@, 0, result)]
    /\ pc' = [pc EXCEPT ![r] = "views_open_close"]
    /\ UNCHANGED <<req, response, tasks, loop, harnessVars>>

\* The client is closed: the handler returns PlainTextResponse("")
\* (src/app.py:87), or the exception of the post leaves it.
views_open_closed(r) ==
    /\ loop = 0
    /\ pc[r] = "views_open_close"
    /\ response' = [response EXCEPT ![r] =
            IF LastResult(calls[r], 0) = "returned" THEN PlainTextResponse
            ELSE ErrorResponse(Raised("ConnectError"))]
    /\ pc' = [pc EXCEPT ![r] = "done"]
    /\ UNCHANGED <<req, calls, tasks, loop, harnessVars>>

\* What handle_interaction does with a payload: its response and the
\* arguments of the background units it creates (src/app.py:95-140).
Routed(resp, spawned) == [response |-> resp, spawned |-> spawned]
TaskArgs(model, question, user_id, channel_id) ==
    [model |-> model, question |-> question, user_id |-> user_id,
     channel_id |-> channel_id]

\* A stage 2 that creates the unit twice.
SubmitQuestionTwice(payload, meta) ==
    IF meta.error # "" THEN Routed(ErrorResponse(Raised(meta.error)), << >>)
    ELSE Routed(ClearResponse,
                <<TaskArgs(meta.model, payload.question, payload.user_id, meta.channel_id),
                  TaskArgs(meta.model, payload.question, payload.user_id, meta.channel_id)>>)

\* Stage 2 (src/app.py:129-138): an exception while decoding ends the handler.
SubmitQuestion(payload, meta) ==
    IF meta.error # "" THEN Routed(ErrorResponse(Raised(meta.error)), << >>)
    ELSE Routed(ClearResponse,
                <<TaskArgs(meta.model, payload.question, payload.user_id,
                           meta.channel_id)>>)

\* A router in which stage 1 goes straight to the completion.
RouteSkippingStage2(payload) ==
    IF payload.shape = "absent" THEN Routed(ErrorResponse(Raised("TypeError")), << >>)
    ELSE IF payload.shape \in {"no_view", "no_callback_id"}
         THEN Routed(ErrorResponse(Raised("KeyError")), << >>)
    ELSE IF payload.callback_id = "select_model"
         THEN Routed(ClearResponse,
                     <<TaskArgs(payload.selected_model, Question, payload.user_id,
                                payload.private_metadata)>>)
    ELSE IF payload.callback_id = "submit_question"
         THEN SubmitQuestion(payload, DecodeCarrier(payload.private_metadata))
    ELSE Routed(PlainTextResponse, << >>)

Route(payload) ==
    IF payload.shape = "absent" THEN Routed(ErrorResponse(Raised("TypeError")), << >>)
    ELSE IF payload.shape \in {"no_view", "no_callback_id"}
         THEN Routed(ErrorResponse(Raised("KeyError")), << >>)
    ELSE IF payload.callback_id = "select_model"
         THEN Routed(PushResponse(QuestionModal(payload.selected_model,
                                                payload.private_metadata)), << >>)
    ELSE IF payload.callback_id = "submit_question"
         THEN SubmitQuestion(payload, DecodeCarrier(payload.private_metadata))
    ELSE Routed(PlainTextResponse, << >>)

\* Route on each payload that arrives, computed once.
Routes == [payload \in {q.form.payload : q \in Requests} |-> Route(payload)]

\* A service that keeps the selected model in a variable all requests share:
\* a unit runs with the model of the first unit created.
NewTaskSharedModel(r, args) ==
    [req |-> r, pc |-> "created",
     model |-> IF tasks = << >> THEN args.model ELSE tasks[1].model,
     question |-> args.question, user_id |-> args.user_id, channel_id |-> args.channel_id]

\* asyncio.create_task(process_question_async(...)): the unit is scheduled,
\* not yet run.
NewTask(r, args) ==
    [req |-> r, pc |-> "created", model |-> args.model, question |-> args.question,
     user_id |-> args.user_id, channel_id |-> args.channel_id]

\* A handler that creates the units and then awaits them before it returns.
handle_interaction_awaiting(r) ==
    /\ loop = 0
    /\ pc[r] = "form"
    /\ req[r].endpoint = "/slack-interact"
    /\ tasks' = tasks \o [i \in 1..Len(Route(req[r].form.payload).spawned) |->
                            NewTask(r, Route(req[r].form.payload).spawned[i])]
    /\ IF Route(req[r].form.payload).spawned = << >>
       THEN /\ response' = [response EXCEPT ![r] = Route(req[r].form.payload).response]
            /\ pc' = [pc EXCEPT ![r] = "done"]
       ELSE /\ pc' = [pc EXCEPT ![r] = "awaiting"]
            /\ UNCHANGED response
    /\ UNCHANGED <<req, calls, loop, harnessVars>>

\* handle_interaction from the parsed form to its return: no await lies
\* between (src/app.py:95-140).
handle_interaction(r) ==
    /\ loop = 0
    /\ pc[r] = "form"
    /\ req[r].endpoint = "/slack-interact"
    /\ LET routed == Routes[req[r].form.payload]
       IN  /\ response' = [response EXCEPT ![r] = routed.response]
           /\ tasks' = tasks \o [i \in 1..Len(routed.spawned) |->
                                    NewTask(r, routed.spawned[i])]
    /\ pc' = [pc EXCEPT ![r] = "done"]
    /\ UNCHANGED <<req, calls, loop, harnessVars>>

\* The event loop runs the unit: it calls the completion API, a synchronous
\* call that keeps the loop's thread until it is over (src/app.py:144-153).
start_completion(t) ==
    /\ loop = 0
    /\ tasks[t].pc = "created"
    /\ tasks' = [tasks EXCEPT ![t].pc = "completing"]
    /\ calls' = [calls EXCEPT ![tasks[t].req] =
                    Append(@, CompletionCall(t, tasks[t].model, tasks[t].question))]
    /\ loop' = t
    /\ UNCHANGED <<req, pc, response, harnessVars>>

\* A unit that sends the error text to the user instead of the channel.
PostAfterCompletionErrorToUser(t, task, stream) ==
    IF stream.error = None
    THEN PostMessageCall(t, task.channel_id,
             AnswerText(task.user_id, task.question, Strip(Accumulate(stream.chunks))))
    ELSE PostMessageCall(t, task.user_id, ErrorText(task.user_id, stream.error))

\* A unit that takes an empty answer for a failure.
PostAfterCompletionEmptyIsError(t, task, stream) ==
    IF stream.error = None /\ Strip(Accumulate(stream.chunks)) # << >>
    THEN PostMessageCall(t, task.channel_id,
             AnswerText(task.user_id, task.question, Strip(Accumulate(stream.chunks))))
    ELSE PostMessageCall(t, task.channel_id,
             ErrorText(task.user_id, IF stream.error = None THEN << >> ELSE stream.error))

\* The message post the unit makes once the completion call is over: the
\* answer when the stream ended, the error text when it raised
\* (src/app.py:155-181).
PostAfterCompletion(t, task, stream) ==
    IF stream.error = None
    THEN PostMessageCall(t, task.channel_id,
             AnswerText(task.user_id, task.question, Strip(Accumulate(stream.chunks))))
    ELSE PostMessageCall(t, task.channel_id, ErrorText(task.user_id, stream.error))

\* The completion call and the iteration of its chunks are over: the unit
\* goes on to the awaited message post (src/app.py:155-170, 172-181).
finish_completion(t) ==
    /\ loop = t
    /\ tasks[t].pc = "completing"
    /\ \E stream \in StreamOutcomes :
        /\ calls' = [calls EXCEPT ![tasks[t].req] =
                Append(SetResult(@, t, IF stream.error = None THEN "returned" ELSE "raised"),
                       PostAfterCompletion(t, tasks[t], stream))]
        /\ tasks' = [tasks EXCEPT ![t].pc =
                IF stream.error = None THEN "posting_answer" ELSE "posting_error"]
    /\ loop' = 0
    /\ UNCHANGED <<req, pc, response, harnessVars>>

\* The post of the answer returns or raises (src/app.py:163-170); the unit is
\* then leaving `async with`, where the client is closed.
answer_post_returns(t) ==
    /\ loop = 0
    /\ tasks[t].pc = "posting_answer"
    /\ \E result \in {"returned", "raised"} :
        calls' = [calls EXCEPT ![tasks[t].req] = SetResult(@, t, result)]
    /\ tasks' = [tasks EXCEPT ![t].pc = "answer_close"]
    /\ UNCHANGED <<req, pc, response, loop, harnessVars>>

\* The client of the answer post is closed: the unit ends, or the exception
\* of the post reaches the except branch, which posts the error text
\* (src/app.py:172-181).
answer_closed(t) ==
    /\ loop = 0
    /\ tasks[t].pc = "answer_close"
    /\ IF LastResult(calls[tasks[t].req], t) = "returned"
       THEN /\ tasks' = [tasks EXCEPT ![t].pc = "done"]
            /\ UNCHANGED calls
       ELSE /\ calls' = [calls EXCEPT ![tasks[t].req] =
                    Append(@, PostMessageCall(t, tasks[t].channel_id,
                                  ErrorText(tasks[t].user_id, PostError)))]
            /\ tasks' = [tasks EXCEPT ![t].pc = "posting_error"]
    /\ UNCHANGED <<req, pc, response, loop, harnessVars>>

\* The post of the error text returns or raises (src/app.py:174-181); the
\* unit is then leaving `async with`, where the client is closed.
error_post_returns(t) ==
    /\ loop = 0
    /\ tasks[t].pc = "posting_error"
    /\ \E result \in {"returned", "raised"} :
        calls' = [calls EXCEPT ![tasks[t].req] = SetResult(@, t, result)]
    /\ tasks' = [tasks EXCEPT ![t].pc = "error_close"]
    /\ UNCHANGED <<req, pc, response, loop, harnessVars>>

\* The client of the error post is closed: the unit ends, or the exception
\* of the post leaves it (src/app.py:172-181).
error_closed(t) ==
    /\ loop = 0
    /\ tasks[t].pc = "error_close"
    /\ tasks' = [tasks EXCEPT ![t].pc =
            IF LastResult(calls[tasks[t].req], t) = "returned" THEN "done" ELSE "raised"]
    /\ UNCHANGED <<req, pc, response, calls, loop, harnessVars>>

(* The completion step of a unit alone, on drawn streams *)

\* delta.content of a chunk: absent, empty, whitespace, text.
ChunkContents == {None, << >>, <<32>>, <<10, 160>>, <<72, 105>>}
UnitStreams == SeqsUpTo(ChunkContents, MaxChunks)
NoPost == PostMessageCall(0, None, << >>)
\* The unit whose completion step is exercised.
UnitTask == NewTask(1, TaskArgs(LLAMA_4_SCOUT, Question, <<85, 49>>, <<67, 49>>))

UnitIdle ==
    /\ uPc = "idle"
    /\ uChunks = << >>
    /\ uError = None
    /\ uPost = NoPost

UnitInit ==
    /\ uPc = "input"
    /\ uChunks \in UnitStreams
    /\ uError \in {None, <<98, 111, 111, 109>>}
    /\ uPost = NoPost

\* The stream is iterated (and raises after its chunks, if it does) and the
\* unit makes its message post (src/app.py:155-181).
UnitPost ==
    /\ uPc = "input"
    /\ uPc' = "posted"
    /\ uPost' = PostAfterCompletion(1, UnitTask, Stream(uChunks, uError))
    /\ UNCHANGED <<uChunks, uError>>
    /\ UNCHANGED <<verifyVars, carrierVars, sysVars>>

Next ==
    \/ \E r \in Reqs : Verify(r)
    \/ \E r \in Reqs : handle_command(r)
    \/ \E r \in Reqs : views_open_returns(r)
    \/ \E r \in Reqs : views_open_closed(r)
    \/ \E r \in Reqs : handle_interaction(r)
    \/ \E t \in 1..Len(tasks) : start_completion(t)
    \/ \E t \in 1..Len(tasks) : finish_completion(t)
    \/ \E t \in 1..Len(tasks) : answer_post_returns(t)
    \/ \E t \in 1..Len(tasks) : answer_closed(t)
    \/ \E t \in 1..Len(tasks) : error_post_returns(t)
    \/ \E t \in 1..Len(tasks) : error_closed(t)

Init == VerifyIdle /\ CarrierIdle /\ UnitIdle /\ SysInit

Spec == Init /\ [][Next]_vars

\* The steps of the handler of request r, and of background unit t.
HandlerStep(r) ==
    \/ handle_command(r)
    \/ views_open_returns(r)
    \/ views_open_closed(r)
    \/ handle_interaction(r)
UnitStep(t) ==
    /\ t \in 1..Len(tasks)
    /\ \/ start_completion(t)
       \/ finish_completion(t)
       \/ answer_post_returns(t)
       \/ answer_closed(t)
       \/ error_post_returns(t)
       \/ error_closed(t)

\* A handler or a unit takes a step.
Progress == (\E r \in Reqs : HandlerStep(r)) \/ (\E t \in Reqs : UnitStep(t))

\* The event loop runs the handlers and units that can take a step, and
\* every external call returns or raises in the end: the service does not
\* stand still while a handler or a unit has a step to take.  No request is
\* bound to arrive.
Fairness == WF_vars(Progress)
SpecFair == Init /\ [][Next]_vars /\ Fairness

\* The verifier alone, on drawn inputs.
InitVerify == VerifyInit /\ CarrierIdle /\ UnitIdle /\ SysInit
NextVerify == VerifyCall
SpecVerify == InitVerify /\ [][NextVerify]_vars

\* The completion step alone, on drawn streams.
InitUnit == VerifyIdle /\ CarrierIdle /\ UnitInit /\ SysInit
NextUnit == UnitPost
SpecUnit == InitUnit /\ [][NextUnit]_vars

\* The carrier alone, on drawn inputs.
InitCarrier == VerifyIdle /\ CarrierInit /\ UnitIdle /\ SysInit
NextCarrier == CarrierEncode \/ CarrierDecode
SpecCarrier == InitCarrier /\ [][NextCarrier]_vars

-----------------------------------------------------------------------------
(* Claims about the service *)

\* The request q fails verification: a header is missing, the timestamp is
\* no integer or is more than 300 seconds from a reading of the clock
\* (float() may refuse it, too), the body is no UTF-8 text, or the signature
\* is not the platform's (a signature that is not ASCII never is).
RequestFails(q) ==
    \/ q.timestamp = None
    \/ q.signature = None
    \/ ~ParseInt(q.timestamp).ok
    \/ \E now \in ClockReadings : SecondsApart(ParseInt(q.timestamp), now)
    \/ ~Utf8Valid(q.body)
    \/ q.signature # SlackSignature(StrV0Eq, SLACK_SIGNING_SECRET, q.timestamp, q.body)
FailingRequests == {q \in Requests : RequestFails(q)}
\* The request served by r fails verification.
FailsVerification(r) == req[r] \in FailingRequests

Arrived(r) == pc[r] # "idle"
Handled(r) == pc[r] = "done"
PayloadOf(r) == req[r].form.payload
UnitsOf(r) == {t \in 1..Len(tasks) : tasks[t].req = r}

\* The interaction served by r submits the view with this callback_id.
Submits(r, callback_id) ==
    /\ Arrived(r)
    /\ req[r].endpoint = "/slack-interact"
    /\ PayloadOf(r).shape = "view"
    /\ PayloadOf(r).callback_id = callback_id

\* The model identifiers and channel values a flow can carry.
ModelIds == {LLAMA_4_SCOUT, LLAMA_3_70B}
ChannelValues == Channels \cup {None}

\* The well-formed carried states: the encoding of each pair (model, channel).
CarriedStates ==
    {[private_metadata |-> EncodeCarrier(m, c), model |-> m, channel_id |-> c] :
        m \in ModelIds, c \in ChannelValues}

IsPost(c) == c.api = "chat.postMessage"
\* A message post whose text is in the answer format (it opens with "<@").
IsAnswerPost(c) == IsPost(c) /\ Len(c.text) >= 2 /\ SubSeq(c.text, 1, 2) = <<60, 64>>
\* A message post whose text is in the error format ("Error for <@...").
IsErrorPost(c) ==
    /\ IsPost(c)
    /\ Len(c.text) >= 12
    /\ SubSeq(c.text, 1, 12) = <<69, 114, 114, 111, 114, 32, 102, 111, 114, 32, 60, 64>>

\* C2: on both endpoints a request that fails verification is rejected before
\* any side effect: no outbound call is made and no background unit is
\* created on its behalf, and its response is an error.
C2_RejectedWithoutSideEffects ==
    \A r \in Reqs :
        (Arrived(r) /\ FailsVerification(r)) =>
            /\ calls[r] = << >>
            /\ UnitsOf(r) = {}
            /\ Handled(r)
            /\ response[r].status \in {400, 403, 500}
            /\ response[r].response_action = ""

\* A command with a wrong signature and a stage-2 submission with a stale
\* timestamp were both turned away, with nothing done for either.
C2_Witness ==
    \E r1, r2 \in Reqs :
        /\ Handled(r1) /\ req[r1].endpoint = "/slack-llama"
        /\ response[r1] = ErrorResponse(InvalidSignature)
        /\ Handled(r2) /\ Submits(r2, "submit_question")
        /\ response[r2] = ErrorResponse(StaleRequest)
        /\ calls[r1] = << >> /\ calls[r2] = << >> /\ tasks = << >>

\* C6: a verified select_model submission is answered with response_action
\* "push" and a stage-2 modal whose callback_id is submit_question and whose
\* metadata decodes to the submitted model and the channel of the stage-1
\* metadata; no outbound call is made and no background unit is created.
C6_Stage1PushesCarrier ==
    \A r \in Reqs :
        (Submits(r, "select_model") /\ ~FailsVerification(r)) =>
            /\ calls[r] = << >>
            /\ UnitsOf(r) = {}
            /\ Handled(r) =>
                /\ response[r].status = 200
                /\ response[r].response_action = "push"
                /\ response[r].view.callback_id = "submit_question"
                /\ DecodeCarrier(response[r].view.private_metadata) =
                        [error |-> "", model |-> PayloadOf(r).selected_model,
                         channel_id |-> PayloadOf(r).private_metadata]

\* The stage-1 submission of "l4" on channel "C1" was answered with a modal
\* whose metadata decodes to ("l4", "C1").
C6_Witness ==
    \E r \in Reqs :
        /\ Handled(r) /\ Submits(r, "select_model")
        /\ PayloadOf(r).selected_model = LLAMA_4_SCOUT
        /\ PayloadOf(r).private_metadata = <<67, 49>>
        /\ response[r].response_action = "push"
        /\ DecodeCarrier(response[r].view.private_metadata).model = LLAMA_4_SCOUT
        /\ DecodeCarrier(response[r].view.private_metadata).channel_id = <<67, 49>>

\* C7: a verified submit_question submission with well-formed carried state
\* is answered with "clear" and creates exactly one background unit, whose
\* arguments are the carried model, the carried channel, the submitted
\* question and the submitting user.
C7_Stage2DispatchesOneUnit ==
    \A r \in Reqs : \A s \in CarriedStates :
        (Submits(r, "submit_question") /\ ~FailsVerification(r)
            /\ PayloadOf(r).private_metadata = s.private_metadata) =>
            IF Handled(r)
            THEN /\ response[r] = ClearResponse
                 /\ Cardinality(UnitsOf(r)) = 1
                 /\ \A t \in UnitsOf(r) :
                        /\ tasks[t].model = s.model
                        /\ tasks[t].channel_id = s.channel_id
                        /\ tasks[t].question = PayloadOf(r).question
                        /\ tasks[t].user_id = PayloadOf(r).user_id
            ELSE UnitsOf(r) = {}

\* A submission by "U2" carrying ("l3", "C2") was answered with "clear" and
\* has its one unit.
C7_Witness ==
    \E r \in Reqs :
        /\ Handled(r) /\ Submits(r, "submit_question")
        /\ PayloadOf(r).private_metadata = EncodeCarrier(LLAMA_3_70B, <<67, 50>>)
        /\ response[r] = ClearResponse
        /\ \E t \in UnitsOf(r) : tasks[t].model = LLAMA_3_70B /\ tasks[t].user_id = <<85, 50>>

\* C8: the stage-2 response never waits on the completion call or on the
\* delivery: wherever a background unit stands (created and not yet run, in
\* the completion call, posting, ended), the handler that created it has
\* already returned the "clear" acknowledgment.
C8_AckNeverWaits ==
    \A t \in 1..Len(tasks) :
        /\ Handled(tasks[t].req)
        /\ response[tasks[t].req] = ClearResponse

\* A unit is inside the completion call, holding the event loop, and its
\* handler has returned "clear".
C8_Witness ==
    \E t \in 1..Len(tasks) :
        /\ tasks[t].pc = "completing"
        /\ loop = t
        /\ response[tasks[t].req] = ClearResponse

\* C9: when the completion call of a unit fails, the unit posts an error
\* text to the channel carried in the stage-2 state, naming the submitting
\* user, and posts no answer message.
C9_CompletionFailurePostsError ==
    \A r \in Reqs : \A i \in 1..Len(calls[r]) :
        (calls[r][i].api = "chat.completions.create" /\ calls[r][i].result = "raised") =>
            /\ \A s \in CarriedStates :
                    PayloadOf(r).private_metadata = s.private_metadata =>
                        \E j \in (i + 1)..Len(calls[r]) :
                            /\ IsErrorPost(calls[r][j])
                            /\ calls[r][j].unit = calls[r][i].unit
                            /\ calls[r][j].channel = s.channel_id
                            /\ calls[r][j].text =
                                    ErrorText(PayloadOf(r).user_id, <<98, 111, 111, 109>>)
            /\ \A j \in 1..Len(calls[r]) :
                    calls[r][j].unit = calls[r][i].unit => ~IsAnswerPost(calls[r][j])

\* The completion call for a submission by "U2" on "C2" raised, and the error
\* text went to "C2".
C9_Witness ==
    \E r \in Reqs : \E i, j \in 1..Len(calls[r]) :
        /\ calls[r][i].api = "chat.completions.create"
        /\ calls[r][i].result = "raised"
        /\ IsErrorPost(calls[r][j])
        /\ calls[r][j].channel = <<67, 50>>
        /\ PayloadOf(r).user_id = <<85, 50>>

\* C10: no exception ever escapes the background unit, whatever the outcomes
\* of the completion call and of the message posts.
C10_NoExceptionEscapes ==
    \A t \in 1..Len(tasks) : tasks[t].pc # "raised"

\* The verified interaction served by r has a payload that is none of the
\* recognised stages: an unknown callback_id, no callback_id, or no view.
Unrecognised(r) ==
    /\ Arrived(r)
    /\ req[r].endpoint = "/slack-interact"
    /\ ~FailsVerification(r)
    /\ \/ PayloadOf(r).shape \in {"no_view", "no_callback_id"}
       \/ /\ PayloadOf(r).shape = "view"
          /\ PayloadOf(r).callback_id \notin {"select_model", "submit_question"}

\* C11: a verified interaction whose payload is none of the recognised stages
\* (unknown callback_id, no callback_id, no view) is answered with the
\* neutral empty acknowledgment, never with an error response, and makes no
\* outbound call and creates no background unit.
C11_UnrecognisedNeutralAck ==
    \A r \in Reqs :
        Unrecognised(r) =>
            /\ calls[r] = << >>
            /\ UnitsOf(r) = {}
            /\ Handled(r) => response[r] = PlainTextResponse

\* The verified stage-2 submission served by r carries metadata that is no
\* well-formed carried state.
CorruptSubmission(r) ==
    /\ Submits(r, "submit_question")
    /\ ~FailsVerification(r)
    /\ PayloadOf(r).private_metadata \in CorruptStates

\* C12: a verified submit_question submission with malformed metadata is
\* aborted, makes no completion call, and the condition reaches the user as
\* a visible error: the handler itself answers (no exception ends it) and
\* either its response shows an error in the modal or an error text is
\* posted.
C12_CorruptStateVisibleError ==
    \A r \in Reqs :
        CorruptSubmission(r) =>
            /\ \A i \in 1..Len(calls[r]) : calls[r][i].api # "chat.completions.create"
            /\ UnitsOf(r) = {}
            /\ Handled(r) =>
                /\ response[r].raised = ""
                /\ \/ response[r].response_action = "errors"
                   \/ \E i \in 1..Len(calls[r]) : IsErrorPost(calls[r][i])

\* The verified command served by r.
VerifiedCommand(r) ==
    /\ Arrived(r)
    /\ req[r].endpoint = "/slack-llama"
    /\ ~FailsVerification(r)

\* C13: a verified command is answered with the empty acknowledgment
\* (HTTP 200) whether the views.open call succeeds or fails.
C13_CommandAlwaysAcknowledged ==
    \A r \in Reqs :
        (VerifiedCommand(r) /\ Handled(r)) => response[r] = PlainTextResponse

\* The stage-2 submission served by r is verified and carries the
\* well-formed state s.
WellFormedSubmission(r, s) ==
    /\ Submits(r, "submit_question")
    /\ ~FailsVerification(r)
    /\ PayloadOf(r).private_metadata = s.private_metadata

\* A chat message has been posted for r to the channel c: a post of the
\* answer or of an error text to c has returned.
PostedTo(r, c) ==
    \E i \in 1..Len(calls[r]) :
        /\ IsPost(calls[r][i])
        /\ calls[r][i].channel = c
        /\ IsAnswerPost(calls[r][i]) \/ IsErrorPost(calls[r][i])
        /\ calls[r][i].result = "returned"

\* A chat message has been posted for r to the channel its state carries.
Signalled(r) ==
    \E s \in CarriedStates : WellFormedSubmission(r, s) /\ PostedTo(r, s.channel_id)

\* C14: under fairness of the handlers and units, every verified well-formed
\* submit_question submission is eventually followed by a chat message posted
\* to the carried channel, the answer or an error text, whatever the
\* completion call and the post of the answer did.
C14_EventuallySignalled ==
    \A r \in Reqs :
        (\E s \in CarriedStates : WellFormedSubmission(r, s)) ~> Signalled(r)

\* The calls of r made to this API.
CallsTo(r, api) == {i \in 1..Len(calls[r]) : calls[r][i].api = api}

\* C16: no retries: for a stage-2 submission the completion API is invoked
\* at most once and at most one message post is made in all, the case where
\* the post of the answer raises included.
C16_AtMostOnePost ==
    \A r \in Reqs :
        /\ Cardinality(CallsTo(r, "chat.completions.create")) <= 1
        /\ Cardinality(CallsTo(r, "chat.postMessage")) <= 1

\* C17: a verified command makes exactly one views.open call, before it
\* responds, with the request's trigger_id and a stage-1 modal whose
\* callback_id is select_model, which offers at least two different model
\* identifiers and whose metadata is the request's channel_id (nothing when
\* the request has none); it makes no completion call and no message post
\* and creates no unit.
C17_CommandOpensStage1Modal ==
    \A r \in Reqs :
        VerifiedCommand(r) =>
            /\ UnitsOf(r) = {}
            /\ pc[r] # "done" => response[r] = NoResponse
            /\ IF pc[r] = "form" THEN calls[r] = << >>
               ELSE /\ Len(calls[r]) = 1
                    /\ calls[r][1].api = "views.open"
                    /\ calls[r][1].trigger_id = req[r].form.trigger_id
                    /\ calls[r][1].view.callback_id = "select_model"
                    /\ Cardinality({calls[r][1].view.options[k] :
                                        k \in 1..Len(calls[r][1].view.options)}) >= 2
                    /\ calls[r][1].view.private_metadata = req[r].form.channel_id

\* A command from channel "C2" and a command without channel have been
\* acknowledged, each after its views.open call.
C17_Witness ==
    \E r1, r2 \in Reqs :
        /\ VerifiedCommand(r1) /\ Handled(r1)
        /\ req[r1].form.channel_id = <<67, 50>>
        /\ calls[r1][1].view.private_metadata = <<67, 50>>
        /\ calls[r1][1].result = "returned"
        /\ VerifiedCommand(r2) /\ Handled(r2)
        /\ req[r2].form.channel_id = None
        /\ calls[r2][1].view.private_metadata = None

\* The metadata the platform echoes back to stage 2 of the flow whose command
\* came from channel c and whose stage 1 selected model m: that of the
\* stage-2 modal built from the metadata of the stage-1 modal.
EchoedStates ==
    {[private_metadata |->
            QuestionModal(m, ModalView(c).private_metadata).private_metadata,
      model |-> m, channel_id |-> c] : m \in ModelIds, c \in ChannelValues}

HasPrefix(text, prefix) ==
    Len(text) >= Len(prefix) /\ SubSeq(text, 1, Len(prefix)) = prefix

\* The call c belongs to the flow (model, channel, question, user): a
\* completion call is for the flow's model and question, a message post goes
\* to the flow's channel and its text names the flow's user and, in an
\* answer, quotes the flow's question.
CallOfFlow(c, model, channel_id, question, user_id) ==
    IF c.api = "chat.completions.create"
    THEN c.model = model /\ c.question = question
    ELSE /\ IsPost(c)
         /\ c.channel = channel_id
         /\ \/ HasPrefix(c.text, AnswerText(user_id, question, << >>))
            \/ HasPrefix(c.text, ErrorText(user_id, << >>))

\* C18: flow isolation: in every interleaving of the handlers and units of
\* the flows, the unit of a stage-2 submission calls the completion API with
\* the model selected in its own flow's stage 1 and its own question, and
\* posts to the channel of its own flow's command, naming its own user;
\* nothing of another flow appears in its calls.
C18_FlowIsolation ==
    \A r \in Reqs : \A s \in EchoedStates :
        (Submits(r, "submit_question") /\ ~FailsVerification(r)
            /\ PayloadOf(r).private_metadata = s.private_metadata) =>
            /\ \A t \in UnitsOf(r) :
                    /\ tasks[t].model = s.model
                    /\ tasks[t].channel_id = s.channel_id
            /\ \A i \in 1..Len(calls[r]) :
                    CallOfFlow(calls[r][i], s.model, s.channel_id,
                               PayloadOf(r).question, PayloadOf(r).user_id)

\* The units of two flows ran interleaved: the second made its completion
\* call before the first had posted, and each posted to its own channel.
C18_Witness ==
    \E r1, r2 \in Reqs :
        /\ r1 # r2
        /\ Len(tasks) = 2 /\ tasks[1].req = r1 /\ tasks[2].req = r2
        /\ tasks[1].model # tasks[2].model
        /\ tasks[1].pc = "posting_answer" /\ tasks[2].pc = "posting_answer"
        /\ \E i \in 1..Len(calls[r1]) : IsPost(calls[r1][i]) /\ calls[r1][i].channel = <<67, 49>>
        /\ \E i \in 1..Len(calls[r2]) : IsPost(calls[r2][i]) /\ calls[r2][i].channel = <<67, 50>>

\* C19: while a unit is waiting on the completion API, the service can
\* still accept and verify another webhook, and every handler that has a
\* step to take can take it.
C19_ResponsiveDuringCompletion ==
    \A t \in 1..Len(tasks) :
        tasks[t].pc = "completing" =>
            /\ (\E r \in Reqs : pc[r] = "idle") => ENABLED (\E r \in Reqs : Verify(r))
            /\ \A r \in Reqs :
                    pc[r] \in {"form", "views_open", "views_open_close"}
                        => ENABLED HandlerStep(r)

\* The request r results in a completion call, a message post or a unit.
Completes(r) ==
    \/ CallsTo(r, "chat.completions.create") # {}
    \/ CallsTo(r, "chat.postMessage") # {}
    \/ UnitsOf(r) # {}

\* C20: stage ordering: a stage-1 modal is only opened by a verified
\* command, a stage-2 modal is only produced as the response to a verified
\* select_model submission, and a completion call, a message post or a unit
\* only results from a verified submit_question submission; command entry
\* and stage-1 submission never complete.
C20_StageOrdering ==
    \A r \in Reqs :
        /\ CallsTo(r, "views.open") # {} => VerifiedCommand(r)
        /\ response[r].view.callback_id = "submit_question" =>
                (Submits(r, "select_model") /\ ~FailsVerification(r))
        /\ Completes(r) => (Submits(r, "submit_question") /\ ~FailsVerification(r))

\* A select_model submission has been answered with the stage-2 modal and
\* has completed nothing, and a submit_question submission has had its
\* answer posted.
C20_Witness ==
    \E r1, r2 \in Reqs :
        /\ Handled(r1) /\ Submits(r1, "select_model")
        /\ response[r1].view.callback_id = "submit_question"
        /\ ~Completes(r1)
        /\ Handled(r2) /\ Submits(r2, "submit_question")
        /\ \E i \in 1..Len(calls[r2]) :
                IsAnswerPost(calls[r2][i]) /\ calls[r2][i].result = "returned"

-----------------------------------------------------------------------------
(* Claims about the completion step *)

\* The stream yields no text: every chunk's content is absent, empty or
\* whitespace.
YieldsNoText(chunks) ==
    \A i \in 1..Len(chunks) :
        chunks[i] # None => \A k \in 1..Len(chunks[i]) : IsSpace(chunks[i][k])

====
